---- MODULE Spec2Model ----
(***************************************************************************)
(* Model of the history walker (walkHistoryLoop and its helpers, the pager *)
(* and counter combinators), of the pack-index reader (readIdxFile) and of *)
(* the pack reader (readObjectBytes) of the git object store.              *)
(***************************************************************************)
EXTENDS Integers, Sequences, FiniteSets, TLC

\* ------------------------------------------------------------------ bounds
MaxCommits == 3
MaxParents == 2
MaxWhen == 1
MaxTree == 2
MaxRoots == 4
MaxSkip == 2
MaxCount == 2
MaxCounted == 4
MaxObjects == 2
MaxOffset == 1
MaxEntries == 2
MaxLen == 1
MaxOpen == 3
NumCbErrs == 2

VARIABLES
    \* the commit graph and the walk's arguments
    parentsOf,      \* Commit.parents: commit -> sequence of parent commits
    when,           \* Commit.Committer.When: commit -> instant
    tree,           \* Commit.TreeId(): commit -> tree id
    eq,             \* the CommitComparator: "nop" or "tree"
    broken,         \* commits whose object cannot be fetched now (Commit.Parent fails)
    cb,             \* the CommitWalkCallback handed to the walk or to a combinator
    wrap,           \* "none", "pager" or "counter": the combinator around cb
    argSkip, argCount,  \* the skip and count handed to makePager
    \* walkHistoryLoop's locals
    roots, results, seen, next, action, pc,
    out,            \* what walkHistoryLoop returned
    \* closure variables of makePager and makeCounter
    skip, count, counterCount,
    \* history of the walk
    visits,         \* commit -> how often the walk's callback got it (0, 1, 2 = more)
    cbTook,         \* the commits for which cb set HWTakeCommit
    before,         \* results at the latest callback invocation
    last,           \* what the walk's callback returned at its latest invocation
    cbLast,         \* what cb returned at that invocation, inside the combinator
    pre,            \* the closure variables before that invocation
    taken,          \* how many invocations had cb set HWTakeCommit, up to MaxTaken
    phase,          \* "ref": the walk with cb alone; "main": the walk as configured
    ref             \* what the walk with cb alone returned

walkVars == <<parentsOf, when, tree, eq, broken, cb, wrap, argSkip, argCount, roots, results, seen,
              next, action, pc, out, skip, count, counterCount, visits, cbTook,
              before, last, cbLast, pre, taken, phase, ref>>

VARIABLES
    \* readIdxFile
    idxFile,        \* the bytes of the .idx file and its sibling pack, by section
    idxPc,          \* the section readIdxFile is at
    idxPos,         \* how many units of the file have been read
    idxLinks,       \* idxOffsetValues64: the (id, slot) links to the 64-bit table
    offsetValues,   \* ifile.offsetValues: id -> pack offset
    offsetValues64, \* the 64-bit offset table as read
    idxRet          \* what readIdxFile returned

idxVars == <<idxFile, idxPc, idxPos, idxLinks, offsetValues, offsetValues64, idxRet>>

VARIABLES
    \* readObjectBytes
    pack,           \* the entries of the pack file, by offset (offset 0: the header)
    req,            \* the offset and sizeonly the caller handed to readObjectBytes
    indexfiles,     \* the offsetValues of the pack's index: id -> offset
    stack,          \* the frames of the running calls of readObjectBytes
    openFiles,      \* the handles of the pack file that are open
    ret,            \* what the latest call to return has returned
    ppc             \* where the caller of readObjectBytes is

packVars == <<pack, req, indexfiles, stack, openFiles, ret, ppc>>
storeVars == <<idxVars, packVars>>

vars == <<walkVars, idxVars, packVars>>

\* ------------------------------------------------------------------ values
Commits == 1..MaxCommits
Start == 1

\* HistoryWalkerAction: a set of flags (HWDrop is the empty set)
HWTakeCommit == "TakeCommit"
HWFollowParents == "FollowParents"
HWStop == "Stop"
HWDrop == {}
HWTakeAndFollow == {HWTakeCommit, HWFollowParents}
Flags == {HWTakeCommit, HWFollowParents, HWStop}
Actions == SUBSET Flags

NoErr == [kind |-> "nil", of |-> 0]
CbErr(n) == [kind |-> "callback", of |-> n]
FetchErr(c) == [kind |-> "fetch", of |-> c]
CbErrs == {CbErr(n) : n \in 1..NumCbErrs}

\* sequences without repetition over S, of length at most n
RECURSIVE DistinctSeqs(_, _)
DistinctSeqs(S, n) ==
    IF n = 0 THEN {<<>>}
    ELSE LET shorter == DistinctSeqs(S, n - 1)
         IN  shorter \cup
             {Append(p[1], p[2]) :
                 p \in {q \in shorter \X S : \A i \in 1..Len(q[1]) : q[1][i] # q[2]}}

Range(s) == {s[i] : i \in 1..Len(s)}
Min(S) == CHOOSE x \in S : \A y \in S : x <= y
Nil == 0

\* ------------------------------------------------------------ comparators
\* nopComparator is always false; commitRootComparator compares the tree ids
Eq(current, parent) ==
    IF eq = "nop" THEN FALSE ELSE tree[current] = tree[parent]

\* --------------------------------------------------------------- the walk
\* parents with the fetch errors dropped: the parents that could be fetched
ParentsIgnoreErr(commit) ==
    LET Readable(c) == c \notin broken
    IN  [pars |-> SelectSeq(parentsOf[commit], Readable), err |-> NoErr]

\* parents(commit): every parent fetched in order, or the first fetch error
Parents(commit) ==
    LET ps == parentsOf[commit]
        bad == {i \in 1..Len(ps) : ps[i] \in broken}
    IN  IF bad = {} THEN [pars |-> ps, err |-> NoErr]
        ELSE [pars |-> <<>>, err |-> FetchErr(ps[Min(bad)])]

\* mergeRoots(base, merging, eq, seen): base first, then every element of
\* merging that equals no element of base; the others are marked seen
RECURSIVE MergeFrom(_, _, _, _, _)
MergeFrom(base, merging, i, newRoots, sn) ==
    IF i > Len(merging) THEN [roots |-> newRoots, seen |-> sn]
    ELSE LET needle == merging[i]
             found == \E k \in 1..Len(base) : Eq(needle, base[k])
         IN  IF found
             THEN MergeFrom(base, merging, i + 1, newRoots, sn \cup {needle})
             ELSE MergeFrom(base, merging, i + 1, Append(newRoots, needle), sn)

MergeRoots(base, merging, sn) == MergeFrom(base, merging, 1, base, sn)

\* skipEqualCommits without the check of seen
RECURSIVE SkipEqualCommitsNoSeen(_, _)
SkipEqualCommitsNoSeen(commit, sn) ==
    IF Len(parentsOf[commit]) = 0
    THEN [commit |-> commit, seen |-> sn, err |-> NoErr]
    ELSE LET ps == parentsOf[commit]
             hits == {i \in 1..Len(ps) : ps[i] \in broken \/ Eq(commit, ps[i])}
         IN  IF hits = {} THEN [commit |-> commit, seen |-> sn, err |-> NoErr]
             ELSE IF ps[Min(hits)] \in broken
             THEN [commit |-> Nil, seen |-> sn, err |-> FetchErr(ps[Min(hits)])]
             ELSE SkipEqualCommitsNoSeen(ps[Min(hits)], sn \cup {commit})

\* skipEqualCommits that stops at the first parent equal to the commit
\* instead of going on from it
SkipEqualCommitsOneStep(commit, sn) ==
    IF commit \in sn THEN [commit |-> Nil, seen |-> sn, err |-> NoErr]
    ELSE IF Len(parentsOf[commit]) = 0
    THEN [commit |-> commit, seen |-> sn, err |-> NoErr]
    ELSE LET ps == parentsOf[commit]
             hits == {i \in 1..Len(ps) : ps[i] \in broken \/ Eq(commit, ps[i])}
         IN  IF hits = {} THEN [commit |-> commit, seen |-> sn, err |-> NoErr]
             ELSE IF ps[Min(hits)] \in broken
             THEN [commit |-> Nil, seen |-> sn, err |-> FetchErr(ps[Min(hits)])]
             ELSE [commit |-> ps[Min(hits)], seen |-> sn \cup {commit},
                   err |-> NoErr]

\* skipEqualCommits(commit, eq, seen): follow the first parent equal to the
\* commit, marking the commit seen, until a commit has no such parent
RECURSIVE SkipEqualCommits(_, _)
SkipEqualCommits(commit, sn) ==
    IF commit \in sn THEN [commit |-> Nil, seen |-> sn, err |-> NoErr]
    ELSE IF Len(parentsOf[commit]) = 0
    THEN [commit |-> commit, seen |-> sn, err |-> NoErr]
    ELSE LET ps == parentsOf[commit]
             hits == {i \in 1..Len(ps) : ps[i] \in broken \/ Eq(commit, ps[i])}
         IN  IF hits = {} THEN [commit |-> commit, seen |-> sn, err |-> NoErr]
             ELSE IF ps[Min(hits)] \in broken
             THEN [commit |-> Nil, seen |-> sn, err |-> FetchErr(ps[Min(hits)])]
             ELSE SkipEqualCommits(ps[Min(hits)], sn \cup {commit})

RECURSIVE SimplifyFrom(_, _, _, _)
SimplifyFrom(rs, i, newRoots, sn) ==
    IF i > Len(rs) THEN [roots |-> newRoots, seen |-> sn, err |-> NoErr]
    ELSE LET r == SkipEqualCommits(rs[i], sn)
         IN  IF r.err # NoErr THEN [roots |-> <<>>, seen |-> r.seen, err |-> r.err]
             ELSE SimplifyFrom(rs, i + 1,
                               IF r.commit # Nil THEN Append(newRoots, r.commit)
                               ELSE newRoots,
                               r.seen)

\* simplifyRoots without skipEqualCommits: only the commits in seen are dropped
SimplifyRootsNoSkip(rs, sn) ==
    LET Unseen(c) == c \notin sn
    IN  [roots |-> SelectSeq(rs, Unseen), seen |-> sn, err |-> NoErr]

SimplifyRoots(rs, sn) == SimplifyFrom(rs, 1, <<>>, sn)

\* the scan with "not before" in place of "after": of the commits with the
\* maximal time the last one wins
RECURSIVE NewestFromLastTie(_, _, _, _)
NewestFromLastTie(rs, j, target, targetIdx) ==
    IF j > Len(rs) THEN [target |-> target, targetIdx |-> targetIdx]
    ELSE IF when[rs[j]] >= when[target]
    THEN NewestFromLastTie(rs, j + 1, rs[j], j - 2)
    ELSE NewestFromLastTie(rs, j + 1, target, targetIdx)

\* the scan of extractNewestCommit: j is the 1-based position in roots of the
\* element the range loop over roots[1:] is at, and the loop's idx is j - 2
RECURSIVE NewestFrom(_, _, _, _)
NewestFrom(rs, j, target, targetIdx) ==
    IF j > Len(rs) THEN [target |-> target, targetIdx |-> targetIdx]
    ELSE IF when[rs[j]] > when[target]
    THEN NewestFrom(rs, j + 1, rs[j], j - 2)
    ELSE NewestFrom(rs, j + 1, target, targetIdx)

\* extractNewestCommit(roots): roots[0] of an empty slice panics
ExtractNewestCommit(rs) ==
    IF Len(rs) = 1 THEN [panic |-> FALSE, next |-> rs[1], roots |-> <<>>]
    ELSE IF Len(rs) = 0 THEN [panic |-> TRUE, next |-> Nil, roots |-> rs]
    ELSE LET t == NewestFrom(rs, 2, rs[1], 0)
         IN  [panic |-> FALSE, next |-> t.target,
              roots |-> SubSeq(rs, 1, t.targetIdx)
                        \o SubSeq(rs, t.targetIdx + 2, Len(rs))]

\* ------------------------------------------------------------- callbacks
CbResult(a, e) == [action |-> a, err |-> e]
AnyResults == {CbResult(a, NoErr) : a \in Actions}
                 \cup {CbResult({HWStop}, e) : e \in CbErrs}

\* every pair a CommitWalkCallback can return
CbResults == {CbResult(a, e) : a \in Actions, e \in {NoErr} \cup CbErrs}

\* what cb may return for a commit: anything when cb is an arbitrary
\* callback, the commit's entry when cb is a function of the commit
CbCall(commit) ==
    IF cb.kind = "any" THEN AnyResults ELSE {cb.f[commit]}

\* the pager without the HWStop on the last commit it lets through
PagerCallbackNoStop(r, sk, cn) ==
    IF r.err # NoErr
    THEN [action |-> r.action, err |-> r.err, skip |-> sk, count |-> cn]
    ELSE IF HWTakeCommit \notin r.action
    THEN [action |-> r.action, err |-> NoErr, skip |-> sk, count |-> cn]
    ELSE IF sk # 0
    THEN [action |-> r.action \ {HWTakeCommit}, err |-> NoErr,
          skip |-> sk - 1, count |-> cn]
    ELSE IF cn # 0
    THEN [action |-> r.action, err |-> NoErr, skip |-> sk, count |-> cn - 1]
    ELSE [action |-> {HWStop}, err |-> NoErr, skip |-> sk, count |-> cn]

\* the closure returned by makePager, applied to cb's result
PagerCallback(r, sk, cn) ==
    IF r.err # NoErr
    THEN [action |-> r.action, err |-> r.err, skip |-> sk, count |-> cn]
    ELSE IF HWTakeCommit \notin r.action
    THEN [action |-> r.action, err |-> NoErr, skip |-> sk, count |-> cn]
    ELSE IF sk # 0
    THEN [action |-> r.action \ {HWTakeCommit}, err |-> NoErr,
          skip |-> sk - 1, count |-> cn]
    ELSE IF cn # 0
    THEN [action |-> IF cn - 1 = 0 THEN r.action \cup {HWStop} ELSE r.action,
          err |-> NoErr, skip |-> sk, count |-> cn - 1]
    ELSE [action |-> {HWStop}, err |-> NoErr, skip |-> sk, count |-> cn]

\* the counter with the test of err after the count
CounterCallbackCountFirst(r, n) ==
    IF HWTakeCommit \in r.action
    THEN [action |-> IF r.err # NoErr THEN r.action ELSE r.action \ {HWTakeCommit},
          err |-> r.err, count |-> n + 1]
    ELSE [action |-> r.action, err |-> r.err, count |-> n]

\* the closure returned by makeCounter, applied to cb's result
CounterCallback(r, n) ==
    IF r.err # NoErr THEN [action |-> r.action, err |-> r.err, count |-> n]
    ELSE IF HWTakeCommit \in r.action
    THEN [action |-> r.action \ {HWTakeCommit}, err |-> NoErr, count |-> n + 1]
    ELSE [action |-> r.action, err |-> NoErr, count |-> n]

\* the callback the walk invokes: cb alone in the reference walk
Wrap == IF phase = "ref" THEN "none" ELSE wrap

Callback(r) ==
    IF Wrap = "pager"
    THEN LET p == PagerCallback(r, skip, count)
         IN  [action |-> p.action, err |-> p.err, skip |-> p.skip,
              count |-> p.count, counterCount |-> counterCount]
    ELSE IF Wrap = "counter"
    THEN LET c == CounterCallback(r, counterCount)
         IN  [action |-> c.action, err |-> c.err, skip |-> skip,
              count |-> count, counterCount |-> c.count]
    ELSE [action |-> r.action, err |-> r.err, skip |-> skip, count |-> count,
          counterCount |-> counterCount]

\* ------------------------------------------------------------ initial states
\* commit c's parents are commits after c, so the graph is acyclic; a graph is
\* the sequence of the commits' parent lists
RECURSIVE GraphsFrom(_)
GraphsFrom(c) ==
    IF c > MaxCommits THEN {<<>>}
    ELSE {<<pl>> \o g : pl \in DistinctSeqs((c + 1)..MaxCommits, MaxParents),
                        g \in GraphsFrom(c + 1)}

Graphs == GraphsFrom(1)
\* only the order of the instants is read (Time.After), and only the equality
\* of tree ids: instants are ranks 0..k and tree ids are numbered in the order
\* of their first commit
Whens == {w \in [Commits -> 0..MaxWhen] :
            \E k \in 0..MaxWhen : {w[c] : c \in Commits} = 0..k}
Trees == {t \in [Commits -> 1..MaxTree] :
            \A c \in Commits : \A x \in 1..(t[c] - 1) : \E d \in 1..(c - 1) : t[d] = x}
Brokens == {{}} \cup {{c} : c \in Commits \ {Start}}

NoOut == [returned |-> FALSE, isNil |-> FALSE, list |-> <<>>, err |-> NoErr]
NoRef == [pc |-> "none", out |-> NoOut]
NoLast == [action |-> {}, err |-> NoErr]
\* the closure variables of a combinator that was never invoked
NewClosure == [skip |-> argSkip, count |-> argCount, counterCount |-> 0]
\* past MaxSkip + MaxCount takes the pager answers the same way for ever
MaxTaken == MaxSkip + MaxCount + 1

AnyCb == [kind |-> "any", f |-> <<>>]
\* makeHistorySearcher: HWTakeAndFollow on a match, HWFollowParents otherwise;
\* nopCallback is the searcher that matches every commit
Searcher(match) ==
    [kind |-> "fn",
     f |-> [c \in Commits |-> IF c \in match THEN CbResult(HWTakeAndFollow, NoErr)
                              ELSE CbResult({HWFollowParents}, NoErr)]]
NopCallback == Searcher(Commits)

InitGraph ==
    /\ parentsOf \in Graphs
    /\ when \in Whens
    /\ \/ eq = "nop" /\ tree = [c \in Commits |-> 1]
       \/ eq = "tree" /\ tree \in Trees

\* no index file is being read
IdleIdx ==
    /\ idxFile = [fault |-> "none", n |-> 0, off32 |-> <<>>, off64 |-> <<>>,
                  len |-> 0]
    /\ idxPc = "idle"
    /\ idxPos = 0
    /\ idxLinks = <<>>
    /\ offsetValues = <<>>
    /\ offsetValues64 = <<>>
    /\ idxRet = [index |-> FALSE, err |-> NoErr]

\* no object is being read
NoStream == [kind |-> "none", h |-> 0, n |-> 0]
NoRet == [ot |-> "none", length |-> 0, dataRc |-> NoStream, err |-> NoErr]
IdlePack ==
    /\ pack = <<>>
    /\ req = [offset |-> 0, sizeonly |-> FALSE]
    /\ indexfiles = <<>>
    /\ stack = <<>>
    /\ openFiles = {}
    /\ ret = NoRet
    /\ ppc = "idle"

InitLocals ==
    /\ IdleIdx
    /\ IdlePack
    /\ roots = <<Start>>
    /\ results = <<>>
    /\ seen = {}
    /\ next = Nil
    /\ action = {}
    /\ pc = "loop"
    /\ out = NoOut
    /\ skip = argSkip
    /\ count = argCount
    /\ counterCount = 0
    /\ visits = [c \in Commits |-> 0]
    /\ cbTook = {}
    /\ before = <<>>
    /\ last = NoLast
    /\ cbLast = NoLast
    /\ pre = NewClosure
    /\ taken = 0

\* walkFilteredHistory(start, callback, eq) with an arbitrary callback
Init ==
    /\ InitGraph
    /\ broken = {}
    /\ cb = AnyCb
    /\ wrap = "none" /\ argSkip = 0 /\ argCount = 0
    /\ phase = "main" /\ ref = NoRef
    /\ InitLocals

\* walkFilteredHistory(start, callback, eq) with a history searcher
InitCb ==
    /\ InitGraph
    /\ broken = {}
    /\ cb \in {Searcher(m) : m \in SUBSET Commits}
    /\ wrap = "none" /\ argSkip = 0 /\ argCount = 0
    /\ phase = "main" /\ ref = NoRef
    /\ InitLocals

\* walkFilteredHistory(start, nopCallback, eq)
InitNop ==
    /\ InitGraph
    /\ broken = {}
    /\ cb = NopCallback
    /\ wrap = "none" /\ argSkip = 0 /\ argCount = 0
    /\ phase = "main" /\ ref = NoRef
    /\ InitLocals

\* the walk with makePager(cb, skip, count), after the walk with cb alone, and
\* the walk with makeCounter(cb)
InitWrap ==
    /\ InitGraph
    /\ broken = {}
    /\ cb \in {Searcher(m) : m \in SUBSET Commits}
    /\ \/ wrap = "pager" /\ argSkip \in 0..MaxSkip /\ argCount \in 0..MaxCount
          /\ phase = "ref"
       \/ wrap = "counter" /\ argSkip = 0 /\ argCount = 0 /\ phase = "main"
    /\ ref = NoRef
    /\ InitLocals

\* ----------------------------------------------------------------- actions
config == <<parentsOf, when, tree, eq, broken, cb, wrap, argSkip, argCount,
           phase, ref>>
history == <<visits, cbTook, before, last, cbLast, pre, taken>>
closure == <<skip, count, counterCount>>

\* return list, err
Return(list, isNil, e) ==
    /\ pc' = "returned"
    /\ out' = [returned |-> TRUE, isNil |-> isNil, list |-> list, err |-> e]

\* for { if len(roots) == 0 { return results, nil }
Loop ==
    /\ pc = "loop"
    /\ IF Len(roots) = 0 THEN Return(results, FALSE, NoErr)
       ELSE pc' = "simplify" /\ out' = out
    /\ UNCHANGED <<storeVars, config, history, closure, roots, results, seen, next, action>>

\* roots, err = simplifyRoots(roots, eq, seen); if err != nil { return nil, err }
Simplify ==
    /\ pc = "simplify"
    /\ LET r == SimplifyRoots(roots, seen)
       IN  /\ seen' = r.seen
           /\ IF r.err # NoErr
              THEN Return(<<>>, TRUE, r.err) /\ roots' = roots
              ELSE roots' = r.roots /\ pc' = "extract" /\ out' = out
    /\ UNCHANGED <<storeVars, config, history, closure, results, next, action>>

\* next, roots = extractNewestCommit(roots)
Extract ==
    /\ pc = "extract"
    /\ LET x == ExtractNewestCommit(roots)
       IN  IF x.panic
           THEN pc' = "panic" /\ UNCHANGED <<next, roots>>
           ELSE next' = x.next /\ roots' = x.roots /\ pc' = "visit"
    /\ UNCHANGED <<storeVars, config, history, closure, results, seen, action, out>>

\* action, err := callback(next); if err != nil { return nil, err }
Visit ==
    /\ pc = "visit"
    /\ \E r \in CbCall(next) :
        LET c == Callback(r)
        IN  /\ c.counterCount <= MaxCounted
            /\ skip' = c.skip /\ count' = c.count
            /\ counterCount' = c.counterCount
            /\ visits' = [visits EXCEPT ![next] = IF @ < 2 THEN @ + 1 ELSE @]
            /\ cbTook' = IF r.err = NoErr /\ HWTakeCommit \in r.action
                         THEN cbTook \cup {next} ELSE cbTook
            /\ before' = results
            /\ last' = [action |-> c.action, err |-> c.err]
            /\ cbLast' = r
            /\ pre' = [skip |-> skip, count |-> count, counterCount |-> counterCount]
            /\ taken' = IF r.err = NoErr /\ HWTakeCommit \in r.action /\ taken < MaxTaken
                        THEN taken + 1 ELSE taken
            /\ IF c.err # NoErr
               THEN Return(<<>>, TRUE, c.err) /\ action' = action
               ELSE action' = c.action /\ pc' = "take" /\ out' = out
    /\ UNCHANGED <<storeVars, config, roots, results, seen, next>>

\* the take step with the HWStop test moved before it: a stop drops the commit
TakeUnlessStop ==
    /\ pc = "take"
    /\ IF HWTakeCommit \in action /\ HWStop \notin action
       THEN results' = Append(results, next) /\ seen' = seen \cup {next}
       ELSE UNCHANGED <<results, seen>>
    /\ pc' = "follow"
    /\ UNCHANGED <<storeVars, config, history, closure, roots, next, action, out>>

\* if action&HWTakeCommit > 0 { results.PushBack(next); seen[next.Id] = ... }
Take ==
    /\ pc = "take"
    /\ IF HWTakeCommit \in action
       THEN results' = Append(results, next) /\ seen' = seen \cup {next}
       ELSE UNCHANGED <<results, seen>>
    /\ pc' = "follow"
    /\ UNCHANGED <<storeVars, config, history, closure, roots, next, action, out>>

\* if action&HWFollowParents > 0 { pars, err := parents(next); ...
\*     roots = mergeRoots(pars, roots, eq, seen) }
Follow ==
    /\ pc = "follow"
    /\ IF HWFollowParents \in action
       THEN LET p == Parents(next)
                m == MergeRoots(p.pars, roots, seen)
            IN  IF p.err # NoErr
                THEN Return(<<>>, TRUE, p.err) /\ UNCHANGED <<roots, seen>>
                ELSE /\ Len(m.roots) <= MaxRoots
                     /\ roots' = m.roots /\ seen' = m.seen
                     /\ pc' = "stop" /\ out' = out
       ELSE pc' = "stop" /\ UNCHANGED <<roots, seen, out>>
    /\ UNCHANGED <<storeVars, config, history, closure, results, next, action>>

\* if action&HWStop > 0 { return results, nil } }
Stop ==
    /\ pc = "stop"
    /\ IF HWStop \in action THEN Return(results, FALSE, NoErr)
       ELSE pc' = "loop" /\ out' = out
    /\ UNCHANGED <<storeVars, config, history, closure, roots, results, seen, next, action>>

\* the walk with cb alone has ended: walk again with the combinator around cb
StartMain ==
    /\ phase = "ref"
    /\ pc \in {"returned", "panic"}
    /\ phase' = "main"
    /\ ref' = [pc |-> pc, out |-> out]
    /\ roots' = <<Start>> /\ results' = <<>> /\ seen' = {} /\ next' = Nil
    /\ action' = {} /\ pc' = "loop" /\ out' = NoOut
    /\ visits' = [c \in Commits |-> 0] /\ cbTook' = {} /\ before' = <<>>
    /\ last' = NoLast
    /\ cbLast' = NoLast /\ taken' = 0
    /\ pre' = [skip |-> skip, count |-> count, counterCount |-> counterCount]
    /\ UNCHANGED <<storeVars, parentsOf, when, tree, eq, broken, cb, wrap, argSkip,
                   argCount, closure>>

\* the object store, between two steps of the walk: an object becomes
\* unreadable, or readable again, before the walk fetches parents
Fault ==
    /\ pc \in {"simplify", "follow"}
    /\ broken' \in Brokens \ {broken}
    /\ UNCHANGED <<storeVars, parentsOf, when, tree, eq, cb, wrap, argSkip, argCount, phase,
                   ref, history, closure, roots, results, seen, next, action, pc,
                   out>>

NextWalk == Loop \/ Simplify \/ Extract \/ Visit \/ Take \/ Follow \/ Stop
NextWrap == NextWalk \/ StartMain

Next == NextWalk \/ Fault
Spec == Init /\ [][Next]_vars
SpecNop == InitNop /\ [][NextWalk]_vars
SpecCb == InitCb /\ [][NextWalk]_vars
SpecCbFair == InitCb /\ [][NextWalk]_vars /\ WF_vars(NextWalk)
SpecWrap == InitWrap /\ [][NextWrap]_vars

\* makePager(cb, skip, count) or makeCounter(cb) with an arbitrary cb, the
\* closure invoked any number of times outside a walk
InitComb ==
    /\ IdleIdx
    /\ IdlePack
    /\ parentsOf = <<>> /\ when = <<>> /\ tree = <<>> /\ eq = "nop"
    /\ broken = {} /\ cb = AnyCb
    /\ \/ wrap = "pager" /\ argSkip \in 0..MaxSkip /\ argCount \in 0..MaxCount
       \/ wrap = "counter" /\ argSkip = 0 /\ argCount = 0
    /\ roots = <<>> /\ results = <<>> /\ seen = {} /\ next = Nil /\ action = {}
    /\ pc = "invoke" /\ out = NoOut
    /\ skip = argSkip /\ count = argCount /\ counterCount = 0
    /\ visits = <<>> /\ cbTook = {} /\ before = <<>> /\ last = NoLast
    /\ cbLast = NoLast /\ pre = NewClosure /\ taken = 0
    /\ phase = "main" /\ ref = NoRef

\* one invocation of the closure: pagerAction, err := cb(commit) and the rest
Invoke ==
    /\ pc = "invoke"
    /\ \E r \in CbResults :
        LET c == Callback(r)
        IN  /\ c.counterCount <= MaxCounted
            /\ skip' = c.skip /\ count' = c.count
            /\ counterCount' = c.counterCount
            /\ last' = [action |-> c.action, err |-> c.err]
            /\ cbLast' = r
            /\ pre' = [skip |-> skip, count |-> count, counterCount |-> counterCount]
            /\ taken' = IF r.err = NoErr /\ HWTakeCommit \in r.action /\ taken < MaxTaken
                        THEN taken + 1 ELSE taken
    /\ UNCHANGED <<storeVars, config, visits, cbTook, before, roots, results, seen,
                   next, action, pc, out>>

SpecComb == InitComb /\ [][Invoke]_vars

\* ------------------------------------------------------------ readIdxFile
\* The .idx file is a sequence of units read in order: the magic and version
\* (1 unit), the fanout (1), the n ids (n), the CRCs (n), the 32-bit offsets
\* (n), the 64-bit offsets (one per 32-bit offset with the MSB set), the pack
\* digest (1) and the trailer (1); len is how many units the file holds.
IdxErr(k) == [kind |-> k, of |-> 0]
IdxFaults == {"none", "missing", "badmagic", "badversion", "badsum", "nopack",
              "badpack"}
Offset32s == [large : BOOLEAN, v : 0..MaxOffset]

\* isIdxOffsetValue64(v): whether the MSB is set, and the other 31 bits
IsIdxOffsetValue64(e) == <<e.large, e.v>>

LargeCount(off32) == Cardinality({i \in 1..Len(off32) : off32[i].large})
IdxFullLen(f) == 2 + 3 * f.n + Len(f.off64) + 2

IdxFiles(n) ==
    UNION {
      {[fault |-> x, n |-> n, off32 |-> o32, off64 |-> o64, len |-> l] :
          x \in IdxFaults,
          o64 \in [1..LargeCount(o32) -> 0..MaxOffset],
          l \in 0..(2 + 3 * n + LargeCount(o32) + 2)} :
      o32 \in [1..n -> Offset32s]}

\* io.ReadFull, binary.Read, io.CopyN of u units at the read position
CanRead(u) == idxPos + u <= idxFile.len

IdxReturn(index, e) ==
    /\ idxPc' = "done"
    /\ idxRet' = [index |-> index, err |-> e]

\* idxf, err := os.Open(path); if err != nil { return nil, err }
IdxOpen ==
    /\ idxPc = "open"
    /\ IF idxFile.fault = "missing" THEN IdxReturn(FALSE, IdxErr("open"))
       ELSE idxPc' = "magic" /\ idxRet' = idxRet
    /\ UNCHANGED <<walkVars, packVars, idxFile, idxPos, idxLinks, offsetValues, offsetValues64>>

\* checkIdxVersion(idx, {255, 't', 'O', 'c'}, 2)
IdxMagic ==
    /\ idxPc = "magic"
    /\ IF ~CanRead(1) THEN IdxReturn(FALSE, IdxErr("eof")) /\ idxPos' = idxPos
       ELSE IF idxFile.fault = "badmagic"
       THEN IdxReturn(FALSE, IdxErr("magic")) /\ idxPos' = idxPos + 1
       ELSE IF idxFile.fault = "badversion"
       THEN IdxReturn(FALSE, IdxErr("version")) /\ idxPos' = idxPos + 1
       ELSE idxPc' = "fanout" /\ idxPos' = idxPos + 1 /\ idxRet' = idxRet
    /\ UNCHANGED <<walkVars, packVars, idxFile, idxLinks, offsetValues, offsetValues64>>

\* binary.Read(idx, binary.BigEndian, fanout)
IdxFanout ==
    /\ idxPc = "fanout"
    /\ IF ~CanRead(1) THEN IdxReturn(FALSE, IdxErr("eof")) /\ idxPos' = idxPos
       ELSE idxPc' = "ids" /\ idxPos' = idxPos + 1 /\ idxRet' = idxRet
    /\ UNCHANGED <<walkVars, packVars, idxFile, idxLinks, offsetValues, offsetValues64>>

\* for i := range ids { n, err := io.ReadFull(idx, ids[i][:]) ... }
IdxIds ==
    /\ idxPc = "ids"
    /\ IF ~CanRead(idxFile.n)
       THEN IdxReturn(FALSE, IdxErr("short")) /\ idxPos' = idxFile.len
       ELSE idxPc' = "crc" /\ idxPos' = idxPos + idxFile.n /\ idxRet' = idxRet
    /\ UNCHANGED <<walkVars, packVars, idxFile, idxLinks, offsetValues, offsetValues64>>

\* io.CopyN(ioutil.Discard, idx, 4*numObjects)
IdxCrc ==
    /\ idxPc = "crc"
    /\ IF ~CanRead(idxFile.n)
       THEN IdxReturn(FALSE, IdxErr("eof")) /\ idxPos' = idxFile.len
       ELSE idxPc' = "off32" /\ idxPos' = idxPos + idxFile.n /\ idxRet' = idxRet
    /\ UNCHANGED <<walkVars, packVars, idxFile, idxLinks, offsetValues, offsetValues64>>

\* the ids i <= k whose 32-bit offset has the MSB set or not
LargeIds(k) == {i \in 1..k : IsIdxOffsetValue64(idxFile.off32[i])[1]}
RECURSIVE LinksUpTo(_)
LinksUpTo(k) ==
    IF k = 0 THEN <<>>
    ELSE IF k \in LargeIds(k)
    THEN Append(LinksUpTo(k - 1),
                [id |-> k, offset |-> IsIdxOffsetValue64(idxFile.off32[k])[2]])
    ELSE LinksUpTo(k - 1)

\* for i := range offsetValues32 { var ov uint32
\*     if err != binary.Read(idx, binary.BigEndian, &ov) { return nil, err } ... }
\* err is nil here, so a failed read returns nil, nil
IdxOff32 ==
    /\ idxPc = "off32"
    /\ LET got == IF CanRead(idxFile.n) THEN idxFile.n ELSE idxFile.len - idxPos
       IN  /\ idxPos' = idxPos + got
           /\ idxLinks' = LinksUpTo(got)
           /\ offsetValues' =
                [i \in (1..got) \ LargeIds(got) |->
                    IsIdxOffsetValue64(idxFile.off32[i])[2]]
           /\ IF got < idxFile.n THEN IdxReturn(FALSE, NoErr)
              ELSE idxPc' = "off64" /\ idxRet' = idxRet
    /\ UNCHANGED <<walkVars, packVars, idxFile, offsetValues64>>

\* offsetValues64 := make([]uint64, len(idxOffsetValues64))
\* if err != binary.Read(idx, binary.BigEndian, offsetValues64) { return nil, err }
IdxOff64 ==
    /\ idxPc = "off64"
    /\ IF ~CanRead(Len(idxLinks))
       THEN /\ IdxReturn(FALSE, NoErr)
            /\ idxPos' = idxFile.len
            /\ offsetValues64' = offsetValues64
       ELSE /\ idxPc' = "lookup" /\ idxRet' = idxRet
            /\ idxPos' = idxPos + Len(idxLinks)
            /\ offsetValues64' = SubSeq(idxFile.off64, 1, Len(idxLinks))
    /\ UNCHANGED <<walkVars, packVars, idxFile, idxLinks, offsetValues>>

\* for _, iov := range idxOffsetValues64 {
\*     if int(iov.offset) >= len(offsetValues64) { return nil, errors.New(...) }
\*     ifile.offsetValues[iov.id] = offsetValues64[iov.offset] }
IdxLookup ==
    /\ idxPc = "lookup"
    /\ LET bad == {k \in 1..Len(idxLinks) :
                      idxLinks[k].offset >= Len(offsetValues64)}
           upTo == IF bad = {} THEN Len(idxLinks) ELSE Min(bad) - 1
           linked == {idxLinks[k].id : k \in 1..upTo}
           SlotOf(i) == idxLinks[CHOOSE k \in 1..upTo : idxLinks[k].id = i].offset
       IN  /\ offsetValues' =
                [i \in DOMAIN offsetValues \cup linked |->
                    IF i \in linked THEN offsetValues64[SlotOf(i) + 1]
                    ELSE offsetValues[i]]
           /\ IF bad # {} THEN IdxReturn(FALSE, IdxErr("slot"))
              ELSE idxPc' = "packsum" /\ idxRet' = idxRet
    /\ UNCHANGED <<walkVars, packVars, idxFile, idxPos, idxLinks, offsetValues64>>

\* io.CopyN(ioutil.Discard, idx, csha1.Size)
IdxPackSum ==
    /\ idxPc = "packsum"
    /\ IF ~CanRead(1) THEN IdxReturn(FALSE, IdxErr("eof")) /\ idxPos' = idxPos
       ELSE idxPc' = "trailer" /\ idxPos' = idxPos + 1 /\ idxRet' = idxRet
    /\ UNCHANGED <<walkVars, packVars, idxFile, idxLinks, offsetValues, offsetValues64>>

\* io.ReadFull(idxf, hashFile); bytes.Equal(hashFile, hashCalculated)
IdxTrailer ==
    /\ idxPc = "trailer"
    /\ IF ~CanRead(1) THEN IdxReturn(FALSE, IdxErr("eof")) /\ idxPos' = idxPos
       ELSE IF idxFile.fault = "badsum"
       THEN IdxReturn(FALSE, IdxErr("checksum")) /\ idxPos' = idxPos + 1
       ELSE idxPc' = "pack" /\ idxPos' = idxPos + 1 /\ idxRet' = idxRet
    /\ UNCHANGED <<walkVars, packVars, idxFile, idxLinks, offsetValues, offsetValues64>>

\* fi, err := os.Open(ifile.packpath); checkIdxVersion(fi, "PACK", 2)
IdxPack ==
    /\ idxPc = "pack"
    /\ IF idxFile.fault = "nopack" THEN IdxReturn(FALSE, IdxErr("open"))
       ELSE IF idxFile.fault = "badpack" THEN IdxReturn(FALSE, IdxErr("magic"))
       ELSE IdxReturn(TRUE, NoErr)
    /\ UNCHANGED <<walkVars, packVars, idxFile, idxPos, idxLinks, offsetValues, offsetValues64>>

\* no walk is running
IdleWalk ==
    /\ parentsOf = <<>> /\ when = <<>> /\ tree = <<>> /\ eq = "nop"
    /\ broken = {} /\ cb = AnyCb /\ wrap = "none" /\ argSkip = 0 /\ argCount = 0
    /\ roots = <<>> /\ results = <<>> /\ seen = {} /\ next = Nil /\ action = {}
    /\ pc = "idle" /\ out = NoOut /\ skip = 0 /\ count = 0 /\ counterCount = 0
    /\ visits = <<>> /\ cbTook = {} /\ before = <<>> /\ last = NoLast
    /\ cbLast = NoLast /\ pre = NewClosure /\ taken = 0
    /\ phase = "main" /\ ref = NoRef

InitIdx ==
    /\ IdleWalk
    /\ IdlePack
    /\ \E n \in 0..MaxObjects : idxFile \in IdxFiles(n)
    /\ idxPc = "open"
    /\ idxPos = 0
    /\ idxLinks = <<>>
    /\ offsetValues = <<>>
    /\ offsetValues64 = <<>>
    /\ idxRet = [index |-> FALSE, err |-> NoErr]

NextIdx ==
    \/ IdxOpen \/ IdxMagic \/ IdxFanout \/ IdxIds \/ IdxCrc \/ IdxOff32
    \/ IdxOff64 \/ IdxLookup \/ IdxPackSum \/ IdxTrailer \/ IdxPack

SpecIdx == InitIdx /\ [][NextIdx]_vars

\* -------------------------------------------------------- readObjectBytes
\* The object ids of a pack are the offsets of its entries (1..Len(pack)).
\* An entry holds the type tag of its header byte, the length of its header,
\* and for a delta the distance (OffsetDelta) or the id (RefDelta) of its base
\* and the result length its payload declares.
ObjectCommit == "commit"
ObjectTree == "tree"
ObjectBlob == "blob"
ObjectTag == "tag"
OffsetDelta == "ofs"
RefDelta == "ref"
Unknown == "unknown"
PackErr(k) == [kind |-> k, of |-> 0]

Entry(t, l, num, id, rl) ==
    [type |-> t, size |-> l, num |-> num, id |-> id, resultLen |-> rl]

\* the entries an offset may hold in a pack of n entries
EntriesAt(offset, n) ==
    {Entry(t, l, 0, 0, 0) : t \in {ObjectCommit, ObjectBlob, Unknown}, l \in 0..MaxLen}
    \cup {Entry(OffsetDelta, l, num, 0, rl) :
            l \in 0..MaxLen, num \in 1..offset, rl \in 0..MaxLen}
    \cup {Entry(RefDelta, l, 0, id, rl) :
            l \in 0..MaxLen, id \in 1..n, rl \in 0..MaxLen}

RECURSIVE PacksFrom(_, _)
PacksFrom(offset, n) ==
    IF offset > n THEN {<<>>}
    ELSE {<<e>> \o p : e \in EntriesAt(offset, n), p \in PacksFrom(offset + 1, n)}

Packs(n) == PacksFrom(1, n)

\* the header at an offset: the pack file starts with "PACK", and 'P' & 0x70
\* is 0x50, the tag of no object type
HeaderAt(offset) ==
    IF offset = 0 THEN Entry(Unknown, 0, 0, 0, 0) ELSE pack[offset]

Frame(offset, sizeonly) ==
    [offset |-> offset, sizeonly |-> sizeonly, pc |-> "open", file |-> 0,
     ot |-> "none", length |-> 0, baseObjectOffset |-> 0, baseRc |-> NoStream]

Top == stack[Len(stack)]
SetTop(f) == [stack EXCEPT ![Len(stack)] = f]

\* A stream has the handle it closes (h) and the number of bytes it yields (n).
\* Close of a stream: a stream over the pack file closes its handle, a
\* buffered stream holds none
StreamClose(rc) == IF rc.kind = "file" THEN {rc.h} ELSE {}

\* return from the running call: the deferred functions run (baseRc.Close(),
\* then file.Close() if err != nil || sizeonly), and the caller gets res
PackReturn(res) ==
    LET f == Top
        byBase == StreamClose(f.baseRc)
        byDefer == IF (res.err # NoErr \/ f.sizeonly) /\ f.file # 0
                   THEN {f.file} ELSE {}
    IN  /\ openFiles' = openFiles \ (byBase \cup byDefer)
        /\ stack' = SubSeq(stack, 1, Len(stack) - 1)
        /\ ret' = res
        /\ ppc' = IF Len(stack) = 1 THEN "returned" ELSE ppc

Result(ot, length, dataRc, e) ==
    [ot |-> ot, length |-> length, dataRc |-> dataRc, err |-> e]

\* file, err := os.Open(path); if err != nil { return }
\* the open fails when the process has MaxOpen files open, or for any reason
PackOpen ==
    /\ ppc = "running" /\ Top.pc = "open"
    /\ \E ok \in BOOLEAN :
        IF ok /\ Cardinality(openFiles) < MaxOpen
        THEN LET h == Min((1..MaxOpen) \ openFiles)
             IN  /\ openFiles' = openFiles \cup {h}
                 /\ stack' = SetTop([Top EXCEPT !.file = h, !.pc = "header"])
                 /\ UNCHANGED <<ret, ppc>>
        ELSE PackReturn(Result("none", 0, NoStream, PackErr("open")))
    /\ UNCHANGED <<walkVars, idxVars, pack, req, indexfiles>>

\* file.Seek, file.Read, ot = ObjectType(buf[0] & 0x70), readLenInPackFile,
\* and the switch on ot up to the recursive call
PackHeader ==
    /\ ppc = "running" /\ Top.pc = "header"
    /\ \E ok \in BOOLEAN :
        LET e == HeaderAt(Top.offset)
            f == [Top EXCEPT !.ot = e.type, !.length = e.size]
        IN  IF ~ok \/ Top.offset > Len(pack)
            THEN PackReturn(Result("none", 0, NoStream, PackErr("read")))
                 /\ pack' = pack
            ELSE IF e.type \in {ObjectCommit, ObjectTree, ObjectBlob, ObjectTag}
            THEN IF Top.sizeonly
                 THEN PackReturn(Result(e.type, e.size, NoStream, NoErr))
                      /\ pack' = pack
                 ELSE /\ stack' = SetTop([f EXCEPT !.pc = "inflate"])
                      /\ UNCHANGED <<openFiles, ret, ppc, pack>>
            ELSE IF e.type = RefDelta /\ e.id \notin DOMAIN indexfiles
            THEN \* log.Fatal("not implemented yet") ends the process
                 /\ ppc' = "fatal"
                 /\ UNCHANGED <<stack, openFiles, ret, pack>>
            ELSE /\ stack' = SetTop([f EXCEPT
                        !.pc = "recurse",
                        !.baseObjectOffset =
                            IF e.type = OffsetDelta THEN Top.offset - e.num
                            ELSE IF e.type = RefDelta THEN indexfiles[e.id]
                            ELSE 0])
                 /\ UNCHANGED <<openFiles, ret, ppc, pack>>
    /\ UNCHANGED <<walkVars, idxVars, req, indexfiles>>

\* file.Seek(offsetInt+pos); dataRc, err = readerDecompressed(file);
\* dataRc = wrapReadCloser(io.LimitReader(dataRc, length), dataRc); return
PackInflate ==
    /\ ppc = "running" /\ Top.pc = "inflate"
    /\ \E ok \in BOOLEAN :
        IF ok
        THEN PackReturn(Result(Top.ot, Top.length,
                               [kind |-> "file", h |-> Top.file, n |-> Top.length],
                               NoErr))
        ELSE PackReturn(Result(Top.ot, Top.length, NoStream, PackErr("inflate")))
    /\ UNCHANGED <<walkVars, idxVars, pack, req, indexfiles>>

\* ot, _, baseRc, err = readObjectBytes(path, indexfiles, baseObjectOffset, false)
PackRecurse ==
    /\ ppc = "running" /\ Top.pc = "recurse"
    /\ stack' = Append(SetTop([Top EXCEPT !.pc = "base"]),
                       Frame(Top.baseObjectOffset, FALSE))
    /\ UNCHANGED <<walkVars, idxVars, pack, req, indexfiles, openFiles, ret, ppc>>

\* if err != nil { return }; defer func() { baseRc.Close() }()
PackBase ==
    /\ ppc = "running" /\ Top.pc = "base"
    /\ IF ret.err # NoErr
       THEN PackReturn(Result(ret.ot, Top.length, NoStream, ret.err))
       ELSE /\ stack' = SetTop([Top EXCEPT !.ot = ret.ot, !.baseRc = ret.dataRc,
                                           !.pc = "delta"])
            /\ UNCHANGED <<openFiles, ret, ppc>>
    /\ UNCHANGED <<walkVars, idxVars, pack, req, indexfiles>>

\* base, err = ioutil.ReadAll(baseRc); file.Seek; rc, err := readerDecompressed(file);
\* the two lengths; if sizeonly { length = resultObjectLength; return };
\* data, err := readerApplyDelta(br, rc, resultObjectLength);
\* dataRc = newBufReadCloser(data); return
PackDelta ==
    /\ ppc = "running" /\ Top.pc = "delta"
    /\ \E io \in {"ok", "read", "inflate", "delta"} :
        IF io \in {"read", "inflate"}
        THEN PackReturn(Result(Top.ot, Top.length, NoStream, PackErr(io)))
        ELSE IF Top.sizeonly
        THEN PackReturn(Result(Top.ot, HeaderAt(Top.offset).resultLen, NoStream,
                               NoErr))
        ELSE IF io = "delta"
        THEN PackReturn(Result(Top.ot, Top.length, [kind |-> "buf", h |-> 0, n |-> 0],
                               PackErr("delta")))
        ELSE PackReturn(Result(Top.ot, Top.length,
                               [kind |-> "buf", h |-> 0,
                                n |-> HeaderAt(Top.offset).resultLen],
                               NoErr))
    /\ UNCHANGED <<walkVars, idxVars, pack, req, indexfiles>>

\* the caller closes the stream it got, if it got one
CallerClose ==
    /\ ppc = "returned"
    /\ ppc' = "closed"
    /\ openFiles' = openFiles \ StreamClose(ret.dataRc)
    /\ UNCHANGED <<walkVars, idxVars, pack, req, indexfiles, stack, ret>>

\* readObjectBytes(path, indexfiles, offset, sizeonly) on an entry of the pack
InitPack ==
    /\ IdleWalk
    /\ IdleIdx
    /\ \E n \in 1..MaxEntries : pack \in Packs(n)
    /\ indexfiles \in {[id \in ids |-> id] : ids \in SUBSET (1..Len(pack))}
    /\ \E offset \in 1..Len(pack), sizeonly \in BOOLEAN :
          /\ req = [offset |-> offset, sizeonly |-> sizeonly]
          /\ stack = <<Frame(offset, sizeonly)>>
    /\ openFiles = {}
    /\ ret = NoRet
    /\ ppc = "running"

NextPack ==
    \/ PackOpen \/ PackHeader \/ PackInflate \/ PackRecurse \/ PackBase
    \/ PackDelta \/ CallerClose

SpecPack == InitPack /\ [][NextPack]_vars

\* ------------------------------------------------------------------ claims
\* the commits reachable from c through parent links, c included
RECURSIVE ReachFrom(_)
ReachFrom(S) ==
    LET more == S \cup UNION {Range(parentsOf[c]) : c \in S}
    IN  IF more = S THEN S ELSE ReachFrom(more)
Reachable(c) == ReachFrom({c})

NoDup(list) == Cardinality(Range(list)) = Len(list)

\* C1: no commit id occurs twice in results, in every state of the walk, nor
\* in the list the walk returns
C1_Uniqueness ==
    /\ NoDup(results)
    /\ out.returned => NoDup(out.list)

\* C1's case: a commit already in results is in the frontier again
C1_Witness ==
    /\ pc = "simplify"
    /\ Len(results) >= 2
    /\ \E i \in 1..Len(roots) : roots[i] \in Range(results)

\* C2: with nopCallback and nopComparator the walk returns, and the ids of
\* the returned list are exactly the commits reachable from the start
C2_ReachableSet ==
    (cb = NopCallback /\ eq = "nop" /\ pc \in {"returned", "panic"})
        => (out.returned /\ Range(out.list) = Reachable(Start))

\* the Follow step cannot be taken because the frontier would pass MaxRoots
Capped ==
    /\ pc = "follow"
    /\ HWFollowParents \in action
    /\ Parents(next).err = NoErr
    /\ Len(MergeRoots(Parents(next).pars, roots, seen).roots) > MaxRoots

\* C3: with a callback that returns no error, on an acyclic graph, the walk
\* eventually returns, with an empty frontier or after an action with HWStop
C3_Terminates ==
    <>(\/ pc = "returned" /\ (roots = <<>> \/ HWStop \in last.action)
       \/ Capped)

\* the first parent of c that cannot be fetched, Nil when there is none
FirstBroken(c) ==
    LET bad == {i \in 1..Len(parentsOf[c]) : parentsOf[c][i] \in broken}
    IN  IF bad = {} THEN Nil ELSE parentsOf[c][Min(bad)]

\* C4: an error of the callback or of a parent fetch ends the walk: the walk
\* returns that error and a nil list, whatever was taken before, and no step
\* of the walk goes on past a failed fetch
C4_ErrorAborts ==
    /\ []((pc = "returned" /\ out.err # NoErr) => (out.isNil /\ out.list = <<>>))
    /\ [](last.err # NoErr => (pc = "returned" /\ out.err = last.err))
    /\ [][(pc = "follow" /\ pc' # pc /\ HWFollowParents \in action)
            => IF FirstBroken(next) # Nil
               THEN /\ pc' = "returned"
                    /\ out'.isNil
                    /\ out'.err = FetchErr(FirstBroken(next))
               ELSE pc' = "stop"]_vars
    /\ [][(pc = "simplify" /\ pc' = "extract")
            => \A k \in 1..Len(roots') : FirstBroken(roots'[k]) = Nil]_vars
    /\ [][(pc = "simplify" /\ pc' = "returned")
            => /\ out'.isNil
               /\ out'.err.kind = "fetch"
               /\ out'.err.of \in broken]_vars

\* C4's case: a parent fetch failed after a commit had been taken
C4_Witness ==
    /\ pc = "returned"
    /\ out.err.kind = "fetch"
    /\ out.isNil
    /\ Len(results) > 0

\* the walk is past the callback invocation and before the next iteration
AfterVisit == pc \in {"take", "follow", "stop", "returned"}

\* C5 as claimed: an action with HWStop ends the walk right after that visit
\* with no error, returning the results before the visit, followed by the
\* visited commit iff the action had HWTakeCommit
C5_StopReturnsNoError ==
    (HWStop \in last.action /\ last.err = NoErr)
        => /\ AfterVisit
           /\ pc = "returned" =>
                /\ out.err = NoErr
                /\ ~out.isNil
                /\ out.list = IF HWTakeCommit \in last.action
                              THEN Append(before, next) ELSE before

\* C5 amended: as claimed, unless the action also had HWFollowParents and a
\* parent of the visited commit could not be fetched: then the walk returns
\* that fetch error and a nil list
C5_StopReturns ==
    (HWStop \in last.action /\ last.err = NoErr)
        => /\ AfterVisit
           /\ pc = "returned" =>
                IF HWFollowParents \in last.action /\ FirstBroken(next) # Nil
                THEN out.isNil /\ out.err = FetchErr(FirstBroken(next))
                ELSE /\ out.err = NoErr
                     /\ ~out.isNil
                     /\ out.list = IF HWTakeCommit \in last.action
                                   THEN Append(before, next) ELSE before

\* C5's case: the walk returned on an action with HWStop and HWTakeCommit
\* after an earlier commit had been taken
C5_Witness ==
    /\ pc = "returned"
    /\ last.err = NoErr
    /\ {HWStop, HWTakeCommit} \subseteq last.action
    /\ Len(before) > 0
    /\ out.list = Append(before, next)

\* the history from the start is linear: at most one parent per commit
Linear == \A c \in Reachable(Start) : Len(parentsOf[c]) <= 1

\* the commits of a linear history, from c to the root
RECURSIVE Chain(_)
Chain(c) ==
    IF Len(parentsOf[c]) = 0 THEN <<c>> ELSE <<c>> \o Chain(parentsOf[c][1])

\* the last commit of a run of adjacent commits with the same tree
OldestOfRun(c) == Len(parentsOf[c]) = 0 \/ tree[c] # tree[parentsOf[c][1]]
Oldest == SelectSeq(Chain(Start), OldestOfRun)

\* C6: on a linear history, with nopCallback and tree equality, the walk
\* returns the oldest commit of each run of equivalent commits, from the start
\* to the root; the other commits never reach the callback and end up in seen
C6_OldestOfRun ==
    (Linear /\ cb = NopCallback /\ eq = "tree")
        => /\ pc # "panic"
           /\ \A c \in Range(Chain(Start)) \ Range(Oldest) : visits[c] = 0
           /\ pc = "returned" =>
                /\ ~out.isNil
                /\ out.list = Oldest
                /\ Range(Chain(Start)) \ Range(Oldest) \subseteq seen

\* C6's case: the chain 1 -> 2 -> 3 with 2 equivalent to 3 and 1 not
C6_Witness ==
    /\ pc = "returned"
    /\ cb = NopCallback /\ eq = "tree"
    /\ Chain(Start) = <<1, 2, 3>>
    /\ tree[2] = tree[3] /\ tree[1] # tree[2]
    /\ out.list = <<1, 3>>

\* the elements at positions k .. k+n-1 (from 0) of list
Page(list, k, n) ==
    LET lo == IF k > Len(list) THEN Len(list) ELSE k
        hi == IF k + n > Len(list) THEN Len(list) ELSE k + n
    IN  SubSeq(list, lo + 1, hi)

\* C7: the walk with makePager(cb, skip, count) returns the elements at
\* positions skip .. skip+count-1 of the list the walk with cb alone returns
C7_PagerLaw ==
    (wrap = "pager" /\ phase = "main" /\ pc = "returned" /\ ref.pc = "returned")
        => /\ ~out.isNil
           /\ out.list = Page(ref.out.list, argSkip, argCount)

\* C8: after the walk with makeCounter(cb) the getter returns the number of
\* distinct commits for which cb set HWTakeCommit, and the result is empty
C8_CounterLaw ==
    (wrap = "counter" /\ pc = "returned")
        => /\ counterCount = Cardinality(cbTook)
           /\ out.list = <<>>

\* C9: readIdxFile returns an error and no index whenever the file is too
\* short for a section it reads, and never a nil index with a nil error
C9_ShortReadIsError ==
    idxPc = "done"
        => /\ idxFile.len < IdxFullLen(idxFile)
                => (idxRet.err # NoErr /\ ~idxRet.index)
           /\ ~(~idxRet.index /\ idxRet.err = NoErr)

\* C10: once readObjectBytes has returned and the caller has closed the
\* stream it got, no handle of the pack file is open
C10_NoOpenHandle == ppc = "closed" => openFiles = {}

\* the entry the caller asked for
Requested == pack[req.offset]
Returned == ppc \in {"returned", "closed"}

\* the type of the non-delta entry at the end of the chain of bases from an
\* offset, Unknown when the chain leaves the pack or does not end in k steps
RECURSIVE BaseType(_, _)
BaseType(offset, k) ==
    IF k = 0 \/ offset = 0 \/ offset > Len(pack) THEN Unknown
    ELSE LET e == pack[offset]
         IN  IF e.type = OffsetDelta THEN BaseType(offset - e.num, k - 1)
             ELSE IF e.type = RefDelta
             THEN IF e.id \in DOMAIN indexfiles
                  THEN BaseType(indexfiles[e.id], k - 1) ELSE Unknown
             ELSE e.type

\* C11: a successful read of a delta entry returns the result length that the
\* delta payload declares and the type of the non-delta entry at the end of
\* its chain of bases, with sizeonly and without, and without sizeonly the
\* stream yields that many bytes
C11_DeltaLength ==
    (Returned /\ ret.err = NoErr /\ Requested.type \in {OffsetDelta, RefDelta})
        => /\ ret.length = Requested.resultLen
           /\ ret.ot = BaseType(req.offset, Len(pack))
           /\ ~req.sizeonly => ret.dataRc.n = ret.length

\* C12: the read of a RefDelta entry whose base id is not in the index of the
\* pack returns a lookup error (or the error of the open or of the read before
\* the lookup) with no handle left open; the process is not ended and no base
\* is read at offset 0
C12_MissingBaseIsError ==
    /\ ppc # "fatal"
    /\ (Requested.type = RefDelta /\ Requested.id \notin DOMAIN indexfiles)
        => /\ \A i \in 1..Len(stack) : stack[i].offset # 0
           /\ Returned => /\ ret.err.kind \in {"lookup", "open", "read"}
                          /\ openFiles = {}

\* C20: the read of an entry whose type tag is that of no object type returns
\* a format error (or the error of the open or of the read before the tag is
\* known): no second call is made, and none at offset 0
C20_UnknownTagIsError ==
    Requested.type = Unknown
        => /\ Len(stack) <= 1
           /\ \A i \in 1..Len(stack) : stack[i].offset # 0
           /\ Returned => ret.err.kind \in {"format", "open", "read"}

\* the lowest position of rs that holds a commit with the maximal time
FirstNewest(rs) ==
    CHOOSE i \in 1..Len(rs) :
        /\ \A j \in 1..Len(rs) : when[rs[j]] <= when[rs[i]]
        /\ \A j \in 1..(i - 1) : when[rs[j]] < when[rs[i]]

\* rs without the element at position i
Without(rs, i) == SubSeq(rs, 1, i - 1) \o SubSeq(rs, i + 1, Len(rs))

\* C13: on a non-empty frontier extractNewestCommit returns the first of the
\* newest commits and the frontier without that occurrence, every other
\* element kept in order
C13_ExtractRemovesPicked ==
    (pc = "extract" /\ roots # <<>>)
        => LET x == ExtractNewestCommit(roots)
               i == FirstNewest(roots)
           IN  /\ x.next = roots[i]
               /\ x.roots = Without(roots, i)

\* C14: the commit handed to the visitor is the first commit of the simplified
\* frontier that has the maximal committer time
C14_NewestFirst ==
    [][(pc = "extract" /\ pc' = "visit") => next' = roots[FirstNewest(roots)]]_vars

\* C14's case: the visitor is about to get a commit while a different commit
\* with the same time is left in the frontier
C14_Witness ==
    /\ pc = "visit"
    /\ roots # <<>>
    /\ \A i \in 1..Len(roots) : when[roots[i]] <= when[next]
    /\ \E i \in 1..Len(roots) : roots[i] # next /\ when[roots[i]] = when[next]

\* C15: following the parents keeps the frontier as it is and appends each
\* parent that is equivalent to no frontier element; the other parents are
\* dropped and marked seen, and nothing else is marked seen
C15_MergeKeepsFrontier ==
    (pc = "follow" /\ HWFollowParents \in action /\ Parents(next).err = NoErr)
        => LET pars == Parents(next).pars
               Fresh(p) == \A k \in 1..Len(roots) : ~Eq(p, roots[k])
               m == MergeRoots(pars, roots, seen)
           IN  /\ m.roots = roots \o SelectSeq(pars, Fresh)
               /\ m.seen = seen \cup {p \in Range(pars) : ~Fresh(p)}

\* C16: at the start of an iteration no two positions of the frontier hold the
\* same commit or commits that the comparator takes for equal
C16_FrontierNonEquivalent ==
    pc = "loop"
        => \A i, j \in 1..Len(roots) :
              i # j => (roots[i] # roots[j] /\ ~Eq(roots[i], roots[j]))

\* C17: no commit is handed to the visitor twice in one walk
C17_SingleVisit == \A c \in Commits : visits[c] <= 1

\* C18: the pager hands on an action without HWTakeCommit as it is and keeps
\* its counters; of the invocations where cb sets HWTakeCommit the first skip
\* lose HWTakeCommit, the next count keep it, the last of them with HWStop
\* added, and every later one gets HWStop alone
C18_PagerSequence ==
    (wrap = "pager" /\ phase = "main" /\ cbLast.err = NoErr)
        => /\ last.err = NoErr
           /\ IF HWTakeCommit \notin cbLast.action
              THEN /\ last.action = cbLast.action
                   /\ skip = pre.skip /\ count = pre.count
              ELSE IF taken <= argSkip
              THEN last.action = cbLast.action \ {HWTakeCommit}
              ELSE IF taken < argSkip + argCount
              THEN last.action = cbLast.action
              ELSE IF taken = argSkip + argCount
              THEN last.action = cbLast.action \cup {HWStop}
              ELSE last.action = {HWStop}

\* C18's case: after skipped commits, the last of several commits the pager
\* lets through, where cb did not set HWStop
C18_Witness ==
    /\ wrap = "pager" /\ pc = "invoke"
    /\ argSkip >= 1 /\ argCount >= 2
    /\ taken = argSkip + argCount
    /\ cbLast = CbResult(HWTakeAndFollow, NoErr)
    /\ last.action = HWTakeAndFollow \cup {HWStop}

\* C19: on an error of cb the pager and the counter return cb's action and
\* cb's error and leave skip, count and the counter as they were
C19_ErrorPassesThrough ==
    (wrap \in {"pager", "counter"} /\ phase = "main" /\ cbLast.err # NoErr)
        => /\ last = cbLast
           /\ skip = pre.skip /\ count = pre.count
           /\ counterCount = pre.counterCount

\* C19's case: cb returned an error with HWTakeCommit set, to a counter that
\* had counted and to a pager that had commits to skip
C19_Witness ==
    /\ pc = "invoke"
    /\ cbLast.err # NoErr /\ HWTakeCommit \in cbLast.action
    /\ \/ wrap = "counter" /\ counterCount >= 1
       \/ wrap = "pager" /\ skip >= 1

\* C21: the walk never indexes an empty frontier: extractNewestCommit is
\* reached with a commit in the frontier and the visitor gets a commit
C21_NonEmptyFrontier ==
    /\ pc # "panic"
    /\ pc = "extract" => roots # <<>>
    /\ pc = "visit" => next # Nil

\* no parent of c is equivalent to c under the comparator (so for a root)
NoEqualParent(c) == \A i \in 1..Len(parentsOf[c]) : ~Eq(c, parentsOf[c][i])

\* C22: the commit handed to the visitor has no parent equivalent to it, and
\* neither has any commit in results nor in the returned list: a commit that
\* skipEqualCommits skips for a parent is never taken
C22_NoEqualParentVisited ==
    /\ next # Nil => NoEqualParent(next)
    /\ \A i \in 1..Len(results) : NoEqualParent(results[i])
    /\ \A i \in 1..Len(out.list) : NoEqualParent(out.list[i])

\* C22's case: a commit with parents is taken that was reached through a
\* commit skipped as equivalent to it
C22_Witness ==
    /\ pc = "follow" /\ eq = "tree"
    /\ next \in Range(results)
    /\ Len(parentsOf[next]) > 0
    /\ \E c \in seen \ Range(results) :
          /\ next \in Range(parentsOf[c])
          /\ Eq(c, next)

====
